---- MODULE Spec2Model ----
(***************************************************************************)
(* getBatteryInfo (internal/battery/battery_info.c): one synchronous read  *)
(* of the battery state out of two platform services, the power-source     *)
(* enumeration (IOPS...) and the device property registry (IORegistry).    *)
(*                                                                         *)
(* The platform is the environment: what its services answer is fixed in   *)
(* Init and stays unchanged over a behaviour, so every call of a behaviour *)
(* runs under the same platform state.  The function is modelled statement *)
(* by statement with a program counter; the handle counters record every   *)
(* acquisition and every release of the call in progress.                  *)
(*                                                                         *)
(* Numbers stored in the platform dictionaries are CFNumbers that hold a   *)
(* C int (what IOPS and the battery driver publish), so reading one with   *)
(* kCFNumberIntType stores that int in the field.                          *)
(***************************************************************************)
EXTENDS Integers, Sequences, FiniteSets, TLC

\* ---------------------------------------------------------------- bounds
\* longest power-source list the platform enumerates
MaxSources == 2
\* number of calls of getBatteryInfo in one behaviour
MaxCalls == 2

\* ------------------------------------------------------- platform keys
kIOPSTypeKey == "Type"
kIOPSInternalBatteryType == "InternalBattery"
kIOPSCurrentCapacityKey == "Current Capacity"
kIOPSIsChargingKey == "Is Charging"
kIOPSPowerSourceStateKey == "Power Source State"
kIOPSACPowerValue == "AC Power"
kIOPSTimeToEmptyKey == "Time to Empty"
kIOPSTimeToFullChargeKey == "Time to Full Charge"

AppleRawMaxCapacity == "AppleRawMaxCapacity"
DesignCapacity == "DesignCapacity"
CycleCount == "CycleCount"
Voltage == "Voltage"
Amperage == "Amperage"

\* ------------------------------------------------------------ dictionaries
\* A CFDictionary is a function from the keys it holds to their values.
EmptyDictionary == <<>>

\* CFDictionaryGetValue(dict, key) returns NULL when the key is absent:
\* HasValue is the NULL test the code applies to the returned pointer.
HasValue(dict, key) == key \in DOMAIN dict

CFDictionaryGetValue(dict, key) == dict[key]

\* CFNumberGetValue(number, kCFNumberIntType, &field): the int the number holds
CFNumberGetValue(number) == number

\* CFStringCompare(a, b, 0) == kCFCompareEqualTo: literal, case-sensitive
CFStringCompareEqual(a, b) == a = b

\* ------------------------------------------------------------ the snapshot
\* BatteryInfo info = {0}
ZeroInfo ==
  [currentCapacity |-> 0, maxCapacity |-> 0, designCapacity |-> 0,
   cycleCount |-> 0, voltage |-> 0, amperage |-> 0, isCharging |-> 0,
   isPlugged |-> 0, timeToEmpty |-> 0, timeToFull |-> 0]

\* what the automatic variable holds without its initializer: whatever the
\* stack held (one representative non-zero content beside the zero one)
InfoUninitialized ==
  {ZeroInfo,
   [currentCapacity |-> 9, maxCapacity |-> 9, designCapacity |-> 9,
    cycleCount |-> 9, voltage |-> 9, amperage |-> 9, isCharging |-> 1,
    isPlugged |-> 1, timeToEmpty |-> 9, timeToFull |-> 9]}

\* the contents of info after its declaration with the initializer {0}
InfoAtDeclaration == {ZeroInfo}

PowerSourceFields ==
  {"currentCapacity", "isCharging", "isPlugged", "timeToEmpty", "timeToFull"}

RegistryFields ==
  {"maxCapacity", "designCapacity", "cycleCount", "voltage", "amperage"}

\* the four platform handles the function acquires
Handles == {"powerInfo", "powerSources", "powerSource", "properties"}

\* ------------------------------------------------- extraction, first phase
\* type && CFStringCompare(type, kIOPSInternalBatteryType, 0) == equal
IsAnyTypedSource(description) == HasValue(description, kIOPSTypeKey)

IsInternalBattery(description) ==
  /\ HasValue(description, kIOPSTypeKey)
  /\ CFStringCompareEqual(CFDictionaryGetValue(description, kIOPSTypeKey),
                          kIOPSInternalBatteryType)

ReadCurrentCapacityClamped(description, inf) ==
  IF HasValue(description, kIOPSCurrentCapacityKey)
  THEN LET v == CFNumberGetValue(
                  CFDictionaryGetValue(description, kIOPSCurrentCapacityKey))
       IN [inf EXCEPT !.currentCapacity =
                        IF v < 0 THEN 0 ELSE IF v > 100 THEN 100 ELSE v]
  ELSE inf

ReadCurrentCapacity(description, inf) ==
  IF HasValue(description, kIOPSCurrentCapacityKey)
  THEN [inf EXCEPT !.currentCapacity = CFNumberGetValue(
          CFDictionaryGetValue(description, kIOPSCurrentCapacityKey))]
  ELSE inf

ReadIsChargingIfPresent(description, inf) ==
  IF HasValue(description, kIOPSIsChargingKey)
  THEN [inf EXCEPT !.isCharging = 1]
  ELSE inf

\* isCharging == kCFBooleanTrue: NULL and kCFBooleanFalse both differ from it
ReadIsCharging(description, inf) ==
  IF /\ HasValue(description, kIOPSIsChargingKey)
     /\ CFDictionaryGetValue(description, kIOPSIsChargingKey) = TRUE
  THEN [inf EXCEPT !.isCharging = 1]
  ELSE inf

ReadIsPlugged(description, inf) ==
  IF HasValue(description, kIOPSPowerSourceStateKey)
  THEN IF CFStringCompareEqual(
            CFDictionaryGetValue(description, kIOPSPowerSourceStateKey),
            kIOPSACPowerValue)
       THEN [inf EXCEPT !.isPlugged = 1]
       ELSE inf
  ELSE inf

ReadTimeToEmpty(description, inf) ==
  IF HasValue(description, kIOPSTimeToEmptyKey)
  THEN [inf EXCEPT !.timeToEmpty = CFNumberGetValue(
          CFDictionaryGetValue(description, kIOPSTimeToEmptyKey))]
  ELSE inf

ReadTimeToFullOnlyWhenCharging(description, inf) ==
  IF HasValue(description, kIOPSTimeToFullChargeKey) /\ inf.timeToEmpty = 0
  THEN [inf EXCEPT !.timeToFull = CFNumberGetValue(
          CFDictionaryGetValue(description, kIOPSTimeToFullChargeKey))]
  ELSE inf

ReadTimeToFull(description, inf) ==
  IF HasValue(description, kIOPSTimeToFullChargeKey)
  THEN [inf EXCEPT !.timeToFull = CFNumberGetValue(
          CFDictionaryGetValue(description, kIOPSTimeToFullChargeKey))]
  ELSE inf

\* the body of the if at line 36, in statement order
ReadDescription(description, inf) ==
  ReadTimeToFull(description,
    ReadTimeToEmpty(description,
      ReadIsPlugged(description,
        ReadIsCharging(description,
          ReadCurrentCapacity(description, inf)))))

\* ------------------------------------------------ extraction, second phase
ReadProperty(properties, key, field, inf) ==
  IF HasValue(properties, key)
  THEN [inf EXCEPT ![field] =
          CFNumberGetValue(CFDictionaryGetValue(properties, key))]
  ELSE inf

\* the body of the if at line 87, in statement order
ReadProperties(properties, inf) ==
  ReadProperty(properties, Amperage, "amperage",
    ReadProperty(properties, Voltage, "voltage",
      ReadProperty(properties, CycleCount, "cycleCount",
        ReadProperty(properties, DesignCapacity, "designCapacity",
          ReadProperty(properties, AppleRawMaxCapacity, "maxCapacity",
                       inf)))))

\* ------------------------------------------------------------------ state
VARIABLES
  infoAvailable,       \* IOPSCopyPowerSourcesInfo() returns a non-NULL blob
  listAvailable,       \* IOPSCopyPowerSourcesList(blob) returns a non-NULL array
  sources,             \* the array: per source <<>> (IOPSGetPowerSourceDescription
                       \* returns NULL) or <<description>>
  serviceFound,        \* IOServiceGetMatchingService() returns a non-zero entry
  propertiesReadable,  \* IORegistryEntryCreateCFProperties() == KERN_SUCCESS
  registry,            \* the property dictionary of the IOPMPowerSource entry
  pc,                  \* position of the call in progress, "idle" between calls
  info,                \* the local BatteryInfo
  i,                   \* the loop index
  acquired,            \* per handle, acquisitions in the current call
  released,            \* per handle, releases in the current call
  registryQueried,     \* the current call has asked the registry for the service
  staleRead,           \* the current call has read through a handle it did not hold
  snapshots            \* the snapshots returned so far, in call order

platform ==
  <<infoAvailable, listAvailable, sources, serviceFound, propertiesReadable,
    registry>>

vars ==
  <<infoAvailable, listAvailable, sources, serviceFound, propertiesReadable,
    registry, pc, info, i, acquired, released, registryQueried, staleRead,
    snapshots>>

\* ------------------------------------------------------- platform contents
\* a key that is absent, or present with one of the values
Opt(key, values) == {EmptyDictionary} \cup {key :> v : v \in values}

Battery87 ==
  (kIOPSTypeKey :> kIOPSInternalBatteryType) @@ (kIOPSCurrentCapacityKey :> 87)
  @@ (kIOPSIsChargingKey :> TRUE) @@ (kIOPSPowerSourceStateKey :> kIOPSACPowerValue)
  @@ (kIOPSTimeToFullChargeKey :> 45)

BatteryOver ==
  (kIOPSTypeKey :> kIOPSInternalBatteryType) @@ (kIOPSCurrentCapacityKey :> 150)
  @@ (kIOPSIsChargingKey :> FALSE) @@ (kIOPSPowerSourceStateKey :> "Battery Power")
  @@ (kIOPSTimeToEmptyKey :> 30) @@ (kIOPSTimeToFullChargeKey :> 45)

BatteryBare == (kIOPSTypeKey :> kIOPSInternalBatteryType)

UPSFull ==
  (kIOPSTypeKey :> "UPS") @@ (kIOPSCurrentCapacityKey :> 55)
  @@ (kIOPSIsChargingKey :> TRUE) @@ (kIOPSPowerSourceStateKey :> kIOPSACPowerValue)
  @@ (kIOPSTimeToEmptyKey :> 20) @@ (kIOPSTimeToFullChargeKey :> 25)

Untyped ==
  (kIOPSCurrentCapacityKey :> 66) @@ (kIOPSIsChargingKey :> TRUE)
  @@ (kIOPSPowerSourceStateKey :> kIOPSACPowerValue)
  @@ (kIOPSTimeToEmptyKey :> 21) @@ (kIOPSTimeToFullChargeKey :> 26)

\* the entries of the enumerated list: a source without description, or one
\* of the descriptions above
Entries ==
  {<<>>} \cup {<<d>> : d \in {Battery87, BatteryOver, BatteryBare, UPSFull, Untyped}}

\* every internal battery description over the five keys of the first phase
InternalBatteryDescriptions ==
  {(kIOPSTypeKey :> kIOPSInternalBatteryType) @@ c @@ g @@ s @@ e @@ f :
     c \in Opt(kIOPSCurrentCapacityKey, {87, 150}),
     g \in Opt(kIOPSIsChargingKey, {TRUE, FALSE}),
     s \in Opt(kIOPSPowerSourceStateKey, {kIOPSACPowerValue, "Battery Power"}),
     e \in Opt(kIOPSTimeToEmptyKey, {0, 30}),
     f \in Opt(kIOPSTimeToFullChargeKey, {0, 45})}

\* every property dictionary over the five keys of the second phase
RegistryDictionaries ==
  {m @@ d @@ c @@ v @@ a :
     m \in Opt(AppleRawMaxCapacity, {4200}),
     d \in Opt(DesignCapacity, {5000}),
     c \in Opt(CycleCount, {312}),
     v \in Opt(Voltage, {12000}),
     a \in Opt(Amperage, {-1500})}

FullRegistry ==
  (AppleRawMaxCapacity :> 4200) @@ (DesignCapacity :> 5000)
  @@ (CycleCount :> 312) @@ (Voltage :> 12000) @@ (Amperage :> -1500)

Lists(first, rest) ==
  {<<>>} \cup
  UNION {{<<f>> \o t : f \in first, t \in [1..n -> rest]} : n \in 0..(MaxSources - 1)}

NoHandles == [h \in Handles |-> 0]

ProgramInit ==
  /\ pc = "idle"
  /\ info = ZeroInfo
  /\ i = 0
  /\ acquired = NoHandles
  /\ released = NoHandles
  /\ registryQueried = FALSE
  /\ staleRead = FALSE
  /\ snapshots = <<>>

\* without the info blob there is no list, without the list no sources
PowerSourcesInit(first, rest) ==
  /\ infoAvailable \in BOOLEAN
  /\ listAvailable \in (IF infoAvailable THEN BOOLEAN ELSE {FALSE})
  /\ sources \in (IF listAvailable THEN Lists(first, rest) ELSE {<<>>})

Init ==
  /\ PowerSourcesInit(Entries, Entries)
  /\ serviceFound \in BOOLEAN
  /\ propertiesReadable \in BOOLEAN
  /\ registry \in RegistryDictionaries
  /\ ProgramInit

\* the first source is any internal battery description
InitDescriptions ==
  /\ PowerSourcesInit({<<d>> : d \in InternalBatteryDescriptions}, Entries)
  /\ serviceFound \in BOOLEAN
  /\ propertiesReadable \in BOOLEAN
  /\ registry \in {EmptyDictionary, FullRegistry}
  /\ ProgramInit

\* ---------------------------------------------------------------- handles
Held(h) == acquired[h] - released[h] = 1

Acquire(h) == acquired' = [acquired EXCEPT ![h] = @ + 1]

\* CFRelease / IOObjectRelease
Release(h) == released' = [released EXCEPT ![h] = @ + 1]

\* return info
ReturnInfo(inf) ==
  /\ pc' = "idle"
  /\ snapshots' = Append(snapshots, inf)

\* ---------------------------------------------------------------- actions
\* a call starts: BatteryInfo info = {0}
Call ==
  /\ pc = "idle"
  /\ Len(snapshots) < MaxCalls
  /\ info' \in InfoAtDeclaration
  /\ acquired' = NoHandles
  /\ released' = NoHandles
  /\ registryQueried' = FALSE
  /\ staleRead' = FALSE
  /\ pc' = "copyInfo"
  /\ UNCHANGED <<platform, i, snapshots>>

\* IOPSCopyPowerSourcesInfo fails, yet the call goes on to the registry
CopyPowerSourcesInfoNoReturn ==
  /\ pc = "copyInfo"
  /\ IF infoAvailable
     THEN /\ Acquire("powerInfo")
          /\ pc' = "copyList"
     ELSE /\ pc' = "matchService"
          /\ UNCHANGED acquired
  /\ UNCHANGED <<platform, info, i, released, registryQueried, staleRead,
                 snapshots>>

\* powerInfo = IOPSCopyPowerSourcesInfo(); if (!powerInfo) return info;
CopyPowerSourcesInfo ==
  /\ pc = "copyInfo"
  /\ IF infoAvailable
     THEN /\ Acquire("powerInfo")
          /\ pc' = "copyList"
          /\ UNCHANGED snapshots
     ELSE /\ ReturnInfo(info)
          /\ UNCHANGED acquired
  /\ UNCHANGED <<platform, info, i, released, registryQueried, staleRead>>

\* the early return forgets CFRelease(powerInfo)
CopyPowerSourcesListLeak ==
  /\ pc = "copyList"
  /\ IF listAvailable
     THEN /\ Acquire("powerSources")
          /\ i' = 0
          /\ pc' = "scan"
          /\ UNCHANGED <<released, snapshots>>
     ELSE /\ ReturnInfo(info)
          /\ UNCHANGED <<acquired, released, i>>
  /\ UNCHANGED <<platform, info, registryQueried, staleRead>>

\* powerSources = IOPSCopyPowerSourcesList(powerInfo);
\* if (!powerSources) { CFRelease(powerInfo); return info; }
\* and, on success, count = CFArrayGetCount(powerSources), i = 0
CopyPowerSourcesList ==
  /\ pc = "copyList"
  /\ IF listAvailable
     THEN /\ Acquire("powerSources")
          /\ i' = 0
          /\ pc' = "scan"
          /\ UNCHANGED <<released, snapshots>>
     ELSE /\ Release("powerInfo")
          /\ ReturnInfo(info)
          /\ UNCHANGED <<acquired, i>>
  /\ UNCHANGED <<platform, info, registryQueried, staleRead>>

\* the loop body without its break: a match is read and the scan goes on
ScanEntryNoBreak ==
  /\ pc = "scan"
  /\ i < Len(sources)
  /\ staleRead' = (staleRead \/ ~Held("powerInfo") \/ ~Held("powerSources"))
  /\ LET powerSource == sources[i + 1]
     IN IF Len(powerSource) = 0
        THEN /\ i' = i + 1
             /\ UNCHANGED <<info, pc>>
        ELSE IF IsInternalBattery(powerSource[1])
             THEN /\ info' = ReadDescription(powerSource[1], info)
                  /\ i' = i + 1
                  /\ UNCHANGED pc
             ELSE /\ i' = i + 1
                  /\ UNCHANGED <<info, pc>>
  /\ UNCHANGED <<platform, acquired, released, registryQueried, snapshots>>

\* one iteration of the for loop (i < count): the description of source i is
\* looked up; NULL: continue; internal battery: read the five fields, break;
\* any other type, or no type: next source
ScanEntry ==
  /\ pc = "scan"
  /\ i < Len(sources)
  /\ staleRead' = (staleRead \/ ~Held("powerInfo") \/ ~Held("powerSources"))
  /\ LET powerSource == sources[i + 1]
     IN IF Len(powerSource) = 0
        THEN /\ i' = i + 1
             /\ UNCHANGED <<info, pc>>
        ELSE IF IsInternalBattery(powerSource[1])
             THEN /\ info' = ReadDescription(powerSource[1], info)
                  /\ pc' = "releaseSources"
                  /\ UNCHANGED i
             ELSE /\ i' = i + 1
                  /\ UNCHANGED <<info, pc>>
  /\ UNCHANGED <<platform, acquired, released, registryQueried, snapshots>>

\* the loop condition fails: i == count
ScanEnd ==
  /\ pc = "scan"
  /\ i >= Len(sources)
  /\ pc' = "releaseSources"
  /\ UNCHANGED <<platform, info, i, acquired, released, registryQueried,
                 staleRead, snapshots>>

\* the list is kept until the end of the call
ReleasePowerSourcesLate ==
  /\ pc = "releaseSources"
  /\ pc' = "releaseInfo"
  /\ UNCHANGED <<platform, info, i, acquired, released, registryQueried,
                 staleRead, snapshots>>

\* CFRelease(powerSources)
ReleasePowerSources ==
  /\ pc = "releaseSources"
  /\ Release("powerSources")
  /\ pc' = "releaseInfo"
  /\ UNCHANGED <<platform, info, i, acquired, registryQueried, staleRead,
                 snapshots>>

\* CFRelease(powerInfo)
ReleasePowerInfo ==
  /\ pc = "releaseInfo"
  /\ Release("powerInfo")
  /\ pc' = "matchService"
  /\ UNCHANGED <<platform, info, i, acquired, registryQueried, staleRead,
                 snapshots>>

\* the test of the returned entry is dropped
GetMatchingServiceUnchecked ==
  /\ pc = "matchService"
  /\ registryQueried' = TRUE
  /\ IF serviceFound
     THEN Acquire("powerSource")
     ELSE UNCHANGED acquired
  /\ pc' = "createProperties"
  /\ UNCHANGED <<platform, info, i, released, staleRead, snapshots>>

\* powerSource = IOServiceGetMatchingService(...); if (powerSource != 0) ...
GetMatchingService ==
  /\ pc = "matchService"
  /\ registryQueried' = TRUE
  /\ IF serviceFound
     THEN /\ Acquire("powerSource")
          /\ pc' = "createProperties"
     ELSE /\ pc' = "return"
          /\ UNCHANGED acquired
  /\ UNCHANGED <<platform, info, i, released, staleRead, snapshots>>

\* if (IORegistryEntryCreateCFProperties(powerSource, &properties, ...)
\*     == KERN_SUCCESS): the dictionary exists on success only
CreateCFProperties ==
  /\ pc = "createProperties"
  /\ staleRead' = (staleRead \/ ~Held("powerSource"))
  /\ IF propertiesReadable
     THEN /\ Acquire("properties")
          /\ pc' = "readProperties"
     ELSE /\ pc' = "releaseService"
          /\ UNCHANGED acquired
  /\ UNCHANGED <<platform, info, i, released, registryQueried, snapshots>>

\* the five lookups in the property dictionary
ReadRegistryProperties ==
  /\ pc = "readProperties"
  /\ staleRead' = (staleRead \/ ~Held("properties"))
  /\ info' = ReadProperties(registry, info)
  /\ pc' = "releaseProperties"
  /\ UNCHANGED <<platform, i, acquired, released, registryQueried, snapshots>>

\* CFRelease(properties)
ReleaseProperties ==
  /\ pc = "releaseProperties"
  /\ Release("properties")
  /\ pc' = "releaseService"
  /\ UNCHANGED <<platform, info, i, acquired, registryQueried, staleRead,
                 snapshots>>

\* IOObjectRelease(powerSource)
ReleaseService ==
  /\ pc = "releaseService"
  /\ Release("powerSource")
  /\ pc' = "return"
  /\ UNCHANGED <<platform, info, i, acquired, registryQueried, staleRead,
                 snapshots>>

\* return info (the last statement)
Return ==
  /\ pc = "return"
  /\ ReturnInfo(info)
  /\ UNCHANGED <<platform, info, i, acquired, released, registryQueried,
                 staleRead>>

Next ==
  \/ Call
  \/ CopyPowerSourcesInfo
  \/ CopyPowerSourcesList
  \/ ScanEntry
  \/ ScanEnd
  \/ ReleasePowerSources
  \/ ReleasePowerInfo
  \/ GetMatchingService
  \/ CreateCFProperties
  \/ ReadRegistryProperties
  \/ ReleaseProperties
  \/ ReleaseService
  \/ Return

Spec == Init /\ [][Next]_vars

SpecDescriptions == InitDescriptions /\ [][Next]_vars

TypeOK ==
  /\ pc \in {"idle", "copyInfo", "copyList", "scan", "releaseSources",
             "releaseInfo", "matchService", "createProperties",
             "readProperties", "releaseProperties", "releaseService", "return"}
  /\ i \in 0..Len(sources)
  /\ Len(snapshots) <= MaxCalls

\* ------------------------------------------------- what the platform reports
\* a call has returned and no other is in progress
Returned == pc = "idle" /\ snapshots # <<>>

\* the snapshot the last call returned
LastSnapshot == snapshots[Len(snapshots)]

\* the power-source list was enumerated
ListEnumerated == infoAvailable /\ listAvailable

\* positions of the listed sources whose description declares an internal battery
BatteryPositions ==
  {k \in 1..Len(sources) :
     /\ Len(sources[k]) = 1
     /\ kIOPSTypeKey \in DOMAIN sources[k][1]
     /\ sources[k][1][kIOPSTypeKey] = kIOPSInternalBatteryType}

BatteryPresent == ListEnumerated /\ BatteryPositions # {}

FirstBatteryPosition ==
  CHOOSE k \in BatteryPositions : \A m \in BatteryPositions : k <= m

FirstBattery == sources[FirstBatteryPosition][1]

\* the number reported under a key, 0 when the key is absent
Reported(dict, key) == IF key \in DOMAIN dict THEN dict[key] ELSE 0

\* 1 when the key is present with that value, else 0
Flag(dict, key, value) ==
  IF key \in DOMAIN dict THEN (IF dict[key] = value THEN 1 ELSE 0) ELSE 0

\* the five first-phase fields as the first internal battery entry reports them
ReportedByBattery ==
  IF BatteryPresent
  THEN [currentCapacity |-> Reported(FirstBattery, kIOPSCurrentCapacityKey),
        isCharging |-> Flag(FirstBattery, kIOPSIsChargingKey, TRUE),
        isPlugged |-> Flag(FirstBattery, kIOPSPowerSourceStateKey, kIOPSACPowerValue),
        timeToEmpty |-> Reported(FirstBattery, kIOPSTimeToEmptyKey),
        timeToFull |-> Reported(FirstBattery, kIOPSTimeToFullChargeKey)]
  ELSE [f \in PowerSourceFields |-> 0]

\* the five second-phase fields as the registry supplies them
ReportedByRegistry ==
  IF serviceFound /\ propertiesReadable
  THEN [maxCapacity |-> Reported(registry, AppleRawMaxCapacity),
        designCapacity |-> Reported(registry, DesignCapacity),
        cycleCount |-> Reported(registry, CycleCount),
        voltage |-> Reported(registry, Voltage),
        amperage |-> Reported(registry, Amperage)]
  ELSE [f \in RegistryFields |-> 0]

\* ------------------------------------------------------------------ claims
\* C1: every handle acquired during a call is released exactly once before
\* the call returns; no handle is released twice, none that was never
\* acquired is released, and none is acquired more than once.
C1_ReleasedExactlyOnce ==
  /\ \A h \in Handles : released[h] <= acquired[h] /\ acquired[h] <= 1
  /\ pc = "idle" => \A h \in Handles : released[h] = acquired[h]
  /\ Returned =>
       /\ acquired["powerInfo"] = (IF infoAvailable THEN 1 ELSE 0)
       /\ acquired["powerSources"] = (IF ListEnumerated THEN 1 ELSE 0)
       /\ acquired["powerSource"] = (IF ListEnumerated /\ serviceFound THEN 1 ELSE 0)
       /\ acquired["properties"] =
            (IF ListEnumerated /\ serviceFound /\ propertiesReadable THEN 1 ELSE 0)

\* a call that took the list-unavailable exit has returned with the info
\* handle acquired and released
C1_Witness ==
  /\ Returned
  /\ infoAvailable /\ ~listAvailable
  /\ acquired["powerInfo"] = 1 /\ released["powerInfo"] = 1

\* C2 as stated: with no internal battery entry in the enumerated list the
\* returned snapshot is all zero, whatever the registry holds.
C2_AllZeroWithoutBattery ==
  (Returned /\ ListEnumerated /\ BatteryPositions = {}) =>
    LastSnapshot = ZeroInfo

\* C2 amended: with no internal battery entry in the enumerated list the five
\* power-source fields are 0 and the five registry fields are what the
\* registry supplies (0 only where it supplies nothing).
C2_PowerSourceFieldsZeroWithoutBattery ==
  (Returned /\ ListEnumerated /\ BatteryPositions = {}) =>
    /\ \A f \in PowerSourceFields : LastSnapshot[f] = 0
    /\ \A f \in RegistryFields : LastSnapshot[f] = ReportedByRegistry[f]

\* a list holding only a UPS was scanned and the registry filled its fields
C2_Witness ==
  /\ Returned /\ ListEnumerated /\ BatteryPositions = {}
  /\ Len(sources) > 0 /\ sources[1] = <<UPSFull>>
  /\ LastSnapshot.maxCapacity = 4200
  /\ LastSnapshot.currentCapacity = 0

\* C3: when the service is not found the five registry fields are 0 and the
\* five power-source fields are the values the first phase set.
C3_RegistryLookupFails ==
  (Returned /\ registryQueried /\ ~serviceFound) =>
    /\ \A f \in RegistryFields : LastSnapshot[f] = 0
    /\ \A f \in PowerSourceFields : LastSnapshot[f] = ReportedByBattery[f]

\* the service was not found although the registry holds every property, and
\* the first phase had set the capacity
C3_Witness ==
  /\ Returned /\ registryQueried /\ ~serviceFound
  /\ propertiesReadable /\ registry = FullRegistry
  /\ LastSnapshot.currentCapacity = 87
  /\ LastSnapshot.isCharging = 1

\* C4: when the power-source info or the list is unavailable the call
\* returns the all-zero snapshot and never queries the registry.
C4_EarlyReturnAllZero ==
  (Returned /\ ~ListEnumerated) =>
    /\ LastSnapshot = ZeroInfo
    /\ ~registryQueried
    /\ acquired["powerSource"] = 0 /\ acquired["properties"] = 0

\* the info was unavailable while the registry would have supplied everything
C4_Witness ==
  /\ Returned /\ ~infoAvailable
  /\ serviceFound /\ propertiesReadable /\ registry = FullRegistry

\* C5 as stated: currentCapacity lies in [0,100] when an internal battery is
\* present, whatever value is reported, and is 0 when none is present.
C5_CapacityInPercentRange ==
  Returned =>
    IF BatteryPresent
    THEN LastSnapshot.currentCapacity \in 0..100
    ELSE LastSnapshot.currentCapacity = 0

\* C5 amended: currentCapacity is the value the first internal battery entry
\* reports, unchanged (so within [0,100] exactly when the reported value
\* is), 0 when the key is absent, and 0 when no internal battery is present.
C5_CapacityAsReported ==
  Returned =>
    IF BatteryPresent
    THEN LastSnapshot.currentCapacity =
           Reported(FirstBattery, kIOPSCurrentCapacityKey)
    ELSE LastSnapshot.currentCapacity = 0

\* the battery reported 150 and the snapshot carries 150
C5_Witness ==
  /\ Returned /\ BatteryPresent
  /\ Reported(FirstBattery, kIOPSCurrentCapacityKey) = 150
  /\ LastSnapshot.currentCapacity = 150

\* C6 as stated: timeToEmpty and timeToFull are never both non-zero.
C6_TimesMutuallyExclusive ==
  Returned => ~(LastSnapshot.timeToEmpty # 0 /\ LastSnapshot.timeToFull # 0)

\* C6 amended: timeToEmpty and timeToFull are both non-zero exactly when the
\* matched entry reports a non-zero value under both keys.
C6_BothTimesOnlyAsReported ==
  Returned =>
    ((LastSnapshot.timeToEmpty # 0 /\ LastSnapshot.timeToFull # 0)
       <=> (ReportedByBattery.timeToEmpty # 0 /\ ReportedByBattery.timeToFull # 0))

\* the entry reported both estimates and the snapshot carries both
C6_Witness ==
  /\ Returned /\ BatteryPresent
  /\ LastSnapshot.timeToEmpty = 30
  /\ LastSnapshot.timeToFull = 45

\* C7: the calls of one behaviour run under the same platform state and
\* return equal snapshots.
C7_Idempotent ==
  \A j \in 1..Len(snapshots) : \A k \in 1..Len(snapshots) :
    snapshots[j] = snapshots[k]

\* two calls have returned a snapshot filled by both phases
C7_Witness ==
  /\ pc = "idle" /\ Len(snapshots) >= 2
  /\ snapshots[2].currentCapacity = 87
  /\ snapshots[2].cycleCount = 312

\* C8: the five power-source fields come from the first internal battery
\* entry of the list only, and the scan never goes past that entry.
C8_FirstMatchWins ==
  /\ BatteryPresent => i < FirstBatteryPosition
  /\ (Returned /\ ListEnumerated) =>
       /\ [f \in PowerSourceFields |-> LastSnapshot[f]] = ReportedByBattery
       /\ i = (IF BatteryPresent THEN FirstBatteryPosition - 1 ELSE Len(sources))

\* a second internal battery entry carries a time-to-empty the first lacks,
\* and the snapshot has none
C8_Witness ==
  /\ Returned /\ Len(sources) >= 2
  /\ sources[1] = <<Battery87>> /\ sources[2] = <<BatteryOver>>
  /\ LastSnapshot.timeToEmpty = 0
  /\ LastSnapshot.currentCapacity = 87

\* C9: each power-source field of the matched entry is determined by its own
\* key: the numbers are the reported value or 0, isCharging is 1 exactly
\* when the flag is present and true, isPlugged is 1 exactly when the state
\* is present and equals the AC value; capacity 87, charging, AC gives
\* 87, 1, 1.
C9_FieldsIndependent ==
  (Returned /\ BatteryPresent) =>
    LET d == FirstBattery
        r == LastSnapshot
    IN /\ r.currentCapacity =
            (IF kIOPSCurrentCapacityKey \in DOMAIN d
             THEN d[kIOPSCurrentCapacityKey] ELSE 0)
       /\ r.timeToEmpty =
            (IF kIOPSTimeToEmptyKey \in DOMAIN d THEN d[kIOPSTimeToEmptyKey] ELSE 0)
       /\ r.timeToFull =
            (IF kIOPSTimeToFullChargeKey \in DOMAIN d
             THEN d[kIOPSTimeToFullChargeKey] ELSE 0)
       /\ r.isCharging \in {0, 1}
       /\ r.isCharging = 1 <=>
            (kIOPSIsChargingKey \in DOMAIN d /\ d[kIOPSIsChargingKey] = TRUE)
       /\ r.isPlugged \in {0, 1}
       /\ r.isPlugged = 1 <=>
            (/\ kIOPSPowerSourceStateKey \in DOMAIN d
             /\ d[kIOPSPowerSourceStateKey] = kIOPSACPowerValue)
       /\ (/\ Reported(d, kIOPSCurrentCapacityKey) = 87
           /\ Flag(d, kIOPSIsChargingKey, TRUE) = 1
           /\ Flag(d, kIOPSPowerSourceStateKey, kIOPSACPowerValue) = 1)
          => (r.currentCapacity = 87 /\ r.isCharging = 1 /\ r.isPlugged = 1)

\* the entry has capacity 87, charging true and AC state but neither time
\* estimate, and the snapshot is 87, 1, 1, 0, 0
C9_Witness ==
  /\ Returned /\ BatteryPresent
  /\ DOMAIN FirstBattery =
       {kIOPSTypeKey, kIOPSCurrentCapacityKey, kIOPSIsChargingKey,
        kIOPSPowerSourceStateKey}
  /\ FirstBattery[kIOPSCurrentCapacityKey] = 87
  /\ FirstBattery[kIOPSIsChargingKey] = TRUE
  /\ FirstBattery[kIOPSPowerSourceStateKey] = kIOPSACPowerValue
  /\ LastSnapshot.currentCapacity = 87
  /\ LastSnapshot.isCharging = 1
  /\ LastSnapshot.isPlugged = 1
  /\ LastSnapshot.timeToEmpty = 0

\* C10: the two resource scopes do not overlap: once the registry has been
\* asked for the service neither power-source handle is held and both were
\* released; the registry entry is not released while the dictionary is
\* held; no lookup goes through a handle that is not held.
C10_ScopesSequential ==
  /\ registryQueried =>
       /\ ~Held("powerInfo") /\ ~Held("powerSources")
       /\ released["powerInfo"] = 1 /\ released["powerSources"] = 1
  /\ acquired["powerSource"] + acquired["properties"] > 0 => registryQueried
  /\ released["powerSource"] > 0 => ~Held("properties")
  /\ Held("properties") => Held("powerSource")
  /\ ~staleRead
  /\ (pc = "scan" /\ i < Len(sources)) => (Held("powerInfo") /\ Held("powerSources"))
  /\ pc = "readProperties" => Held("properties")

\* a call that scanned two sources and read the property dictionary returned
C10_Witness ==
  /\ Returned
  /\ Len(sources) >= 2 /\ i >= 1
  /\ \A h \in Handles : acquired[h] = 1 /\ released[h] = 1

====
